---- MODULE Spec2Model ----
(***************************************************************************)
(* A model of tryptag/tryptools/tryptools.py: the skeleton pruning walk    *)
(* (_mask_pruned_skeleton), the K/N classifier (cell_kn_analysis), the     *)
(* midline tracer (cell_midline_analysis) and the morphology fuser         *)
(* (cell_morphology_analysis).                                             *)
(*                                                                         *)
(* A grid is a numpy array of shape[1] rows and shape[2] columns, stored   *)
(* row-major as a function on 0..rows*columns-1; a coordinate is <<y, x>>  *)
(* (row, column), 0-based.  Library calls are modelled by what they        *)
(* compute: scipy.ndimage.convolve with its default mode "reflect",        *)
(* skimage local_maxima with allow_borders=False, numpy indexing with      *)
(* negative indices counting from the end and an index >= the dimension    *)
(* raising IndexError, list.sort as a stable sort, cdist(...).argmin() as  *)
(* the first index of the least squared Euclidean distance.                *)
(*                                                                         *)
(* gaussian, skeletonize, medial_axis, label and regionprops_table are not *)
(* modelled: what they return is an input.  The pruning walk starts from   *)
(* any skeleton grid, the tracer from any grid medial_axis may return, the *)
(* classifier from any table of labelled components.                       *)
(***************************************************************************)
EXTENDS Integers, Sequences, FiniteSets, TLC

\* ------------------------------------------------------------ bounds
PruneH == 3          \* image shape of the pruning runs
PruneW == 5
MaxPixels == 4       \* skeleton pixels of a pruning run
MaxPrune == 4        \* prune_length of a pruning run
MidH == 4            \* image shape of the midline and morphology runs
MidW == 5
MaxMidPixels == 4    \* skeleton pixels of a midline run
MaxMorphPixels == 3  \* skeleton pixels of a morphology run
MaxComponents == 2   \* labelled DNA components of a morphology run
MaxKnComponents == 3 \* labelled DNA components of a classifier run

\* ------------------------------------------------------------ program constants
DefaultMinArea == 17
DefaultKnThreshold == 250
PhaseForeground == 255

VARIABLES
  pc,                \* position in the running function
  caller,            \* the function that was called: "prune", "midline", "kn", "morphology"
  shape,             \* <<rows, columns>> of the cell's images
  skeleton0,         \* the skeleton grid the running function started from
  skeleton,          \* _mask_pruned_skeleton: skeleton
  prune_length,      \* _mask_pruned_skeleton: prune_length
  t,                 \* _mask_pruned_skeleton: number of termini whose walk has started
  length, cy, cx,    \* _mask_pruned_skeleton: the walk
  neighbours,        \* the neighbour-count map (lines 39, 141), computed once
  termini,           \* the enumerated termini (lines 43, 154), <<y, x>> in raster order
  v,                 \* the loop variable of the walk and of the trace
  pth_skeleton,      \* cell_midline_analysis: pth_skeleton
  midline,           \* cell_midline_analysis: midline
  traced,            \* the path as cell_midline_analysis returned it, before any reversal
  morphology,        \* the dict morphology / midline_analysis
  min_area, kn_threshold_area,
  dna_components,    \* the rows of pth_props_table and dna_props_table
  kn_analysis        \* the dict cell_kn_analysis returns / kn_analysis

pruneVars == <<skeleton, prune_length, t, length, cy, cx>>
midVars == <<pth_skeleton, midline, traced, morphology>>
knVars == <<min_area, kn_threshold_area, dna_components, kn_analysis>>
vars == <<pc, caller, shape, skeleton0, neighbours, termini, v, pruneVars, midVars, knVars>>

\* ------------------------------------------------------------ numpy helpers
GridH == shape[1]
GridW == shape[2]
Cells == 0..(GridH * GridW - 1)
Idx(y, x) == y * GridW + x
Yof(c) == c \div GridW
Xof(c) == c % GridW

\* numpy accepts an index i of a dimension of size n when -n <= i < n
InRange(i, n) == i >= -n /\ i < n

\* a negative index counts from the end
Norm(i, n) == IF i < 0 THEN i + n ELSE i

\* g[y, x]
Get(g, y, x) == g[Idx(Norm(y, GridH), Norm(x, GridW))]

\* g[y, x] = val
Put(g, y, x, val) == [g EXCEPT ![Idx(Norm(y, GridH), Norm(x, GridW))] = val]

\* mode="reflect" of scipy.ndimage.convolve: (d c b a | a b c d | d c b a)
Reflect(i, n) == IF i < 0 THEN -i - 1 ELSE IF i >= n THEN 2 * n - 1 - i ELSE i

R(g, y, x) == g[Idx(Reflect(y, GridH), Reflect(x, GridW))]

\* scipy.ndimage.convolve(g, [[1, 1, 1], [1, 0, 1], [1, 1, 1]]) * g, for a grid g of 0 and 1
NeighbourMap(g) ==
  [c \in Cells |->
     LET y == Yof(c)
         x == Xof(c)
     IN IF g[c] = 0 THEN 0
        ELSE R(g, y - 1, x - 1) + R(g, y - 1, x) + R(g, y - 1, x + 1)
             + R(g, y, x - 1) + R(g, y, x + 1)
             + R(g, y + 1, x - 1) + R(g, y + 1, x) + R(g, y + 1, x + 1)]

OnBorder(c) == Yof(c) = 0 \/ Yof(c) = GridH - 1 \/ Xof(c) = 0 \/ Xof(c) = GridW - 1

\* the coordinates of a set of cells in raster (row-major) order, the order of numpy.nonzero
RECURSIVE RasterSeq(_)
RasterSeq(S) ==
  IF S = {} THEN <<>>
  ELSE LET m == CHOOSE m \in S : \A o \in S : m <= o
       IN <<<<Yof(m), Xof(m)>>>> \o RasterSeq(S \ {m})

\* termini[termini > 1] = 0; local_maxima(termini, indices=True, allow_borders=False):
\* the pixels of neighbour count 1 that are not on the image border, in raster order
TerminiOf(nb) == RasterSeq({c \in Cells : nb[c] = 1 /\ ~OnBorder(c)})

\* the scan "for a in range(-1, 2): for b in range(-1, 2)" from its i-th offset on
\* (i in 1..9): the first offset whose pixel holds 1.  An offset that leaves the array
\* on the high side raises IndexError before any later offset is read.  The pruning
\* walk skips the centre (a != 0 or b != 0) without reading it, the tracer reads it.
RECURSIVE Scan(_, _, _, _, _)
Scan(g, y, x, i, skipCentre) ==
  IF i > 9 THEN [kind |-> "none", a |-> 0, b |-> 0]
  ELSE LET a == ((i - 1) \div 3) - 1
           b == ((i - 1) % 3) - 1
       IN IF skipCentre /\ a = 0 /\ b = 0 THEN Scan(g, y, x, i + 1, skipCentre)
          ELSE IF ~(InRange(y + b, GridH) /\ InRange(x + a, GridW))
               THEN [kind |-> "error", a |-> a, b |-> b]
          ELSE IF Get(g, y + b, x + a) = 1 THEN [kind |-> "hit", a |-> a, b |-> b]
          ELSE Scan(g, y, x, i + 1, skipCentre)

\* ------------------------------------------------------------ inputs
\* the sets of at most k cells of an image of n cells
RECURSIVE PixelSets(_, _)
PixelSets(n, k) ==
  IF k = 0 THEN {{}}
  ELSE LET prev == PixelSets(n, k - 1)
       IN prev \cup {s \cup {c} : s \in prev, c \in 0..(n - 1)}

GridOf(S, n) == [c \in 0..(n - 1) |-> IF c \in S THEN 1 ELSE 0]

\* the sequences of at most n elements of S
RECURSIVE SeqsUpTo(_, _)
SeqsUpTo(S, n) ==
  IF n = 0 THEN {<<>>}
  ELSE LET prev == SeqsUpTo(S, n - 1)
       IN prev \cup {Append(s, e) : s \in prev, e \in S}

NoGrid == <<>>
NoDict == [k \in {} |-> 0]

\* ------------------------------------------------------------ _mask_pruned_skeleton
\* while length < prune_length + 2 and v > 0 and v < 3
WalkContinues(len, plen, val) == len < plen + 2 /\ val > 0 /\ val < 3

\* if neighbours[cy, cx] < 3: skeleton[cy, cx] = 2
MarkVisited(sk, nb, y, x) == IF Get(nb, y, x) < 3 THEN Put(sk, y, x, 2) ELSE sk

\* the comparison of line 70 turned round
ShouldPruneReversed(len, plen) == len > plen

\* if length < prune_length
ShouldPrune(len, plen) == len < plen

\* skeleton[skeleton == 2] = 0
ClearVisited(sk) == [c \in DOMAIN sk |-> IF sk[c] = 2 THEN 0 ELSE sk[c]]

\* the else branch of line 72 left out
RetainVisitedForgotten(sk) == sk

\* skeleton[skeleton == 2] = 1
RetainVisited(sk) == [c \in DOMAIN sk |-> IF sk[c] = 2 THEN 1 ELSE sk[c]]

\* the state on entry to the for loop of line 45: any skeleton, its neighbour-count
\* map and its termini
InitPrune ==
  /\ pc = "for" /\ caller = "prune"
  /\ shape = <<PruneH, PruneW>>
  /\ \E S \in PixelSets(PruneH * PruneW, MaxPixels) : skeleton = GridOf(S, PruneH * PruneW)
  /\ skeleton0 = skeleton
  /\ neighbours = NeighbourMap(skeleton)
  /\ termini = TerminiOf(neighbours)
  /\ prune_length \in 0..MaxPrune
  /\ t = 0 /\ length = 0 /\ cy = 0 /\ cx = 0 /\ v = 0
  /\ pth_skeleton = NoGrid /\ midline = <<>> /\ traced = <<>> /\ morphology = NoDict
  /\ min_area = DefaultMinArea /\ kn_threshold_area = DefaultKnThreshold
  /\ dna_components = <<>> /\ kn_analysis = NoDict

\* lines 45-48: the next terminus
WalkStart ==
  /\ pc = "for" /\ t < Len(termini)
  /\ t' = t + 1
  /\ length' = 0
  /\ cy' = termini[t'][1] /\ cx' = termini[t'][2]
  /\ v' = Get(neighbours, cy', cx')
  /\ pc' = "while"
  /\ UNCHANGED <<caller, shape, skeleton0, neighbours, termini, skeleton, prune_length,
                 midVars, knVars>>

\* lines 49-68: one iteration of the walk
WalkStep ==
  /\ pc = "while" /\ WalkContinues(length, prune_length, v)
  /\ LET sk == MarkVisited(skeleton, neighbours, cy, cx)
         hit == Scan(sk, cy, cx, 1, TRUE)
     IN /\ skeleton' = sk
        /\ IF hit.kind = "hit"
           THEN /\ length' = length + 1
                /\ v' = Get(neighbours, cy, cx)
                /\ cy' = cy + hit.b /\ cx' = cx + hit.a
                /\ pc' = "while"
           ELSE /\ v' = 0
                /\ pc' = IF hit.kind = "error" THEN "error" ELSE "while"
                /\ UNCHANGED <<length, cy, cx>>
  /\ UNCHANGED <<caller, shape, skeleton0, neighbours, termini, prune_length, t,
                 midVars, knVars>>

\* lines 69-73: the walk is over, prune or retain what it visited
WalkEnd ==
  /\ pc = "while" /\ ~WalkContinues(length, prune_length, v)
  /\ skeleton' = IF ShouldPrune(length, prune_length)
                 THEN ClearVisited(skeleton) ELSE RetainVisited(skeleton)
  /\ pc' = "for"
  /\ UNCHANGED <<caller, shape, skeleton0, neighbours, termini, v, prune_length, t,
                 length, cy, cx, midVars, knVars>>

NextPrune == WalkStart \/ WalkStep \/ WalkEnd

SpecPrune == InitPrune /\ [][NextPrune]_vars

\* ------------------------------------------------------------ cell_midline_analysis
\* numpy.count_nonzero(neighbours == 1), (neighbours == 2), (neighbours > 2)
CountTermini(nb) == Cardinality({c \in DOMAIN nb : nb[c] = 1})
CountMidline(nb) == Cardinality({c \in DOMAIN nb : nb[c] = 2})
CountBranches(nb) == Cardinality({c \in DOMAIN nb : nb[c] > 2})

\* if termini_count == 2 and branches_count == 0
IsSingleLine(termini_count, branches_count) == termini_count = 2 /\ branches_count = 0

\* the state on entry to cell_midline_analysis, line 141: any grid as pth_skeleton
InitSkeleton(maxPixels) ==
  /\ pc = "midline_start"
  /\ shape = <<MidH, MidW>>
  /\ \E S \in PixelSets(MidH * MidW, maxPixels) : pth_skeleton = GridOf(S, MidH * MidW)
  /\ skeleton0 = pth_skeleton
  /\ neighbours = NoGrid /\ termini = <<>> /\ v = 0
  /\ skeleton = NoGrid /\ prune_length = 0 /\ t = 0 /\ length = 0 /\ cy = 0 /\ cx = 0
  /\ midline = <<>> /\ traced = <<>> /\ morphology = NoDict
  /\ min_area = DefaultMinArea /\ kn_threshold_area = DefaultKnThreshold
  /\ dna_components = <<>> /\ kn_analysis = NoDict

InitMidline == caller = "midline" /\ InitSkeleton(MaxMidPixels)

\* lines 141-157: the counts, and the start of the trace when the skeleton is a single line
MidlineStart ==
  /\ pc = "midline_start"
  /\ neighbours' = NeighbourMap(pth_skeleton)
  /\ LET termini_count == CountTermini(neighbours')
         midline_count == CountMidline(neighbours')
         branches_count == CountBranches(neighbours')
     IN /\ morphology' = [termini |-> termini_count, midlines |-> midline_count,
                          branches |-> branches_count]
        /\ IF IsSingleLine(termini_count, branches_count)
           THEN /\ termini' = TerminiOf(neighbours')
                /\ IF Len(termini') = 0
                   THEN \* termini_y[0] raises IndexError
                        /\ pc' = "error"
                        /\ UNCHANGED <<midline, v>>
                   ELSE /\ midline' = <<termini'[1]>>
                        /\ v' = Get(pth_skeleton, termini'[1][1], termini'[1][2])
                        /\ pc' = "trace"
           ELSE /\ pc' = "midline_return"
                /\ UNCHANGED <<termini, midline, v>>
  /\ UNCHANGED <<caller, shape, skeleton0, pruneVars, pth_skeleton, traced, knVars>>

\* lines 158-174: one iteration of the trace
TraceStep ==
  /\ pc = "trace" /\ v > 0
  /\ LET y == midline[Len(midline)][1]
         x == midline[Len(midline)][2]
         sk == Put(pth_skeleton, y, x, 0)
         hit == Scan(sk, y, x, 1, FALSE)
     IN /\ pth_skeleton' = sk
        /\ IF hit.kind = "hit"
           THEN /\ midline' = Append(midline, <<y + hit.b, x + hit.a>>)
                /\ v' = Get(sk, y + hit.b, x + hit.a)
                /\ pc' = "trace"
           ELSE /\ v' = 0
                /\ pc' = IF hit.kind = "error" THEN "error" ELSE "trace"
                /\ UNCHANGED midline
  /\ UNCHANGED <<caller, shape, skeleton0, neighbours, termini, pruneVars, traced,
                 morphology, knVars>>

\* lines 175-179: the dict is returned and the locals are gone
MidlineReturn ==
  /\ \/ /\ pc = "trace" /\ v <= 0
        /\ morphology' = [midline |-> midline, midline_pixels |-> Len(midline)] @@ morphology
        /\ traced' = midline
     \/ /\ pc = "midline_return"
        /\ UNCHANGED <<morphology, traced>>
  /\ pth_skeleton' = NoGrid /\ skeleton0' = NoGrid /\ neighbours' = NoGrid
  /\ termini' = <<>> /\ midline' = <<>> /\ v' = 0
  /\ pc' = IF caller = "morphology" THEN "kn_start" ELSE "done"
  /\ UNCHANGED <<caller, shape, pruneVars, knVars>>

NextMidline == MidlineStart \/ TraceStep \/ MidlineReturn

SpecMidline == InitMidline /\ [][NextMidline]_vars

\* ------------------------------------------------------------ cell_kn_analysis
\* one row of pth_props_table and dna_props_table: a labelled component of dna_mask
PhaseMaxima == {0, 1, PhaseForeground}
Areas == {DefaultMinArea, DefaultMinArea + 1, 30, DefaultKnThreshold}
Component(pmax, area, cw) ==
  [pth_intensity_max |-> pmax, area_convex |-> area, intensity_mean |-> 2,
   intensity_max |-> 3, centroid_weighted_0 |-> cw[1], centroid_weighted_1 |-> cw[2]]

\* the tables of a classifier run
KnComponents == {Component(p, a, <<1, 1>>) : p \in PhaseMaxima, a \in Areas}

\* the tables of a morphology run: components inside the cell, of kinetoplast and of
\* nucleus size, with their centroids (row, column) in the image
Centroids == {<<1, 1>>, <<2, 1>>, <<3, 1>>}
MorphComponents == {Component(PhaseForeground, a, cw) : a \in {30, 300}, cw \in Centroids}

\* the area test of line 98 made inclusive
KeepComponentInclusive(c, minArea) ==
  c.pth_intensity_max = PhaseForeground /\ c.area_convex >= minArea

\* if pth_props_table["intensity_max"][i] == 255 and pth_props_table["area_convex"][i] > min_area
KeepComponent(c, minArea) == c.pth_intensity_max = PhaseForeground /\ c.area_convex > minArea

\* dna_objects.append({...})
DnaObject(c) ==
  [centroid |-> [x |-> c.centroid_weighted_0, y |-> c.centroid_weighted_1],
   area |-> c.area_convex,
   dna_sum |-> c.area_convex * c.intensity_mean,
   dna_max |-> c.intensity_max]

\* lines 96-108: the objects of the components that pass the filter, in label order
RECURSIVE FilterObjects(_, _)
FilterObjects(comps, minArea) ==
  IF comps = <<>> THEN <<>>
  ELSE LET rest == FilterObjects(Tail(comps), minArea)
       IN IF KeepComponent(Head(comps), minArea)
          THEN <<DnaObject(Head(comps))>> \o rest ELSE rest

\* list.sort(key=lambda x: x[field]): a stable insertion of o into a sorted list
InsertBy(sorted, o, field) ==
  LET n == Cardinality({i \in 1..Len(sorted) : sorted[i][field] <= o[field]})
  IN SubSeq(sorted, 1, n) \o <<o>> \o SubSeq(sorted, n + 1, Len(sorted))

RECURSIVE SortBy(_, _)
SortBy(objs, field) ==
  IF objs = <<>> THEN <<>>
  ELSE InsertBy(SortBy(SubSeq(objs, 1, Len(objs) - 1), field), objs[Len(objs)], field)

\* math.ceil(len(dna_objects) / 2)
CeilHalf(n) == (n + 1) \div 2

\* if dna_objects[o]["area"] < kn_threshold_area
IsKinetoplastArea(area, threshold) == area < threshold

\* object["type"] = ...
Typed(o, ty) == [centroid |-> o.centroid, area |-> o.area, dna_sum |-> o.dna_sum,
                 dna_max |-> o.dna_max, type |-> ty]

\* lines 113-121: the smallest ceil(count / 2) are "k" unless too large, the rest "n"
Classify(sorted, threshold) ==
  [i \in 1..Len(sorted) |->
     Typed(sorted[i],
           IF i <= CeilHalf(Len(sorted)) /\ IsKinetoplastArea(sorted[i].area, threshold)
           THEN "k" ELSE "n")]

IsK(o) == o.type = "k"
IsN(o) == o.type = "n"

\* str(count_k)+"K"+str(count_n)+"N"
CountKn(count_k, count_n) == ToString(count_k) \o "K" \o ToString(count_n) \o "N"

\* lines 112-131
KnResult(comps, minArea, threshold) ==
  LET dna_objects == Classify(SortBy(FilterObjects(comps, minArea), "area"), threshold)
      objects_k == SelectSeq(dna_objects, IsK)
      count_k == Len(objects_k)
      count_n == Len(dna_objects) - count_k
  IN [count_kn |-> CountKn(count_k, count_n),
      count_k |-> count_k,
      count_n |-> count_n,
      objects_k |-> objects_k,
      objects_n |-> SelectSeq(dna_objects, IsN)]

\* a call of cell_kn_analysis(cell_image, min_area, kn_threshold_area)
InitKn ==
  /\ pc = "kn_start" /\ caller = "kn"
  /\ shape = <<MidH, MidW>>
  /\ min_area \in {DefaultMinArea, 29}
  /\ kn_threshold_area \in {30, DefaultKnThreshold}
  /\ dna_components = <<>> /\ kn_analysis = NoDict
  /\ skeleton0 = NoGrid /\ neighbours = NoGrid /\ termini = <<>> /\ v = 0
  /\ skeleton = NoGrid /\ prune_length = 0 /\ t = 0 /\ length = 0 /\ cy = 0 /\ cx = 0
  /\ pth_skeleton = NoGrid /\ midline = <<>> /\ traced = <<>> /\ morphology = NoDict

\* lines 89-131: the whole of cell_kn_analysis; the tables of cell_image's DNA components
\* are read here
KnAnalysis ==
  /\ pc = "kn_start"
  /\ dna_components' \in IF caller = "kn" THEN SeqsUpTo(KnComponents, MaxKnComponents)
                         ELSE SeqsUpTo(MorphComponents, MaxComponents)
  /\ kn_analysis' = KnResult(dna_components', min_area, kn_threshold_area)
  /\ pc' = IF caller = "morphology" THEN "fuse" ELSE "done"
  /\ UNCHANGED <<caller, shape, skeleton0, neighbours, termini, v, pruneVars, midVars,
                 min_area, kn_threshold_area>>

NextKn == KnAnalysis

SpecKn == InitKn /\ [][NextKn]_vars

\* ------------------------------------------------------------ cell_morphology_analysis
SqDist(p, q) == (p[1] - q[1]) * (p[1] - q[1]) + (p[2] - q[2]) * (p[2] - q[2])

\* scipy.spatial.distance.cdist([p], path).argmin(): the first index, from 0, of a
\* least distance
ArgMin(p, path) ==
  CHOOSE i \in 0..(Len(path) - 1) :
    /\ \A j \in 0..(Len(path) - 1) : SqDist(p, path[i + 1]) <= SqDist(p, path[j + 1])
    /\ \A j \in 0..(i - 1) : SqDist(p, path[j + 1]) > SqDist(p, path[i + 1])

\* the point handed to cdist: [object["centroid"]["y"], object["centroid"]["x"]]
CdistPoint(o) == <<o.centroid.y, o.centroid.x>>

\* object["midline_index"] = ...
Indexed(o, i) == [centroid |-> o.centroid, area |-> o.area, dna_sum |-> o.dna_sum,
                  dna_max |-> o.dna_max, type |-> o.type, midline_index |-> i]

\* the test of line 206 made on a length that is never negative
HasKinetoplastAlways(objects_k) == Len(objects_k) >= 0

\* if len(kn_analysis["objects_k"]) > 0
HasKinetoplast(objects_k) == Len(objects_k) > 0

\* lines 208-213: min_k_1
RECURSIVE MinK1(_, _)
MinK1(objs, acc) ==
  IF objs = <<>> THEN acc
  ELSE MinK1(Tail(objs),
             IF Head(objs).type = "k" /\ Head(objs).midline_index < acc
             THEN Head(objs).midline_index ELSE acc)

\* lines 209-215: min_k_2
RECURSIVE MinK2(_, _, _)
MinK2(objs, n, acc) ==
  IF objs = <<>> THEN acc
  ELSE MinK2(Tail(objs), n,
             IF Head(objs).type = "k" /\ n - Head(objs).midline_index < acc
             THEN n - Head(objs).midline_index ELSE acc)

\* if min_k_2 < min_k_1
ShouldReverse(min_k_1, min_k_2) == min_k_2 < min_k_1

\* object["midline_index"] = len(midline_analysis["midline"]) - object["midline_index"]
ReversedIndex(n, i) == n - i

\* list.reverse()
Reverse(s) == [i \in 1..Len(s) |-> s[Len(s) + 1 - i]]

\* x["type"].upper()
Upper(ty) == IF ty = "k" THEN "K" ELSE IF ty = "n" THEN "N" ELSE ty

\* "".join([x["type"].upper() for x in dna_objects])
RECURSIVE JoinTypes(_)
JoinTypes(objs) ==
  IF objs = <<>> THEN "" ELSE Upper(Head(objs).type) \o JoinTypes(Tail(objs))

\* lines 231-238: the cumulative distance along the path, a + b * root2 kept as <<a, b>>
RECURSIVE Distance(_, _)
Distance(path, i) ==
  IF i = 1 THEN << <<0, 0>> >>
  ELSE LET before == Distance(path, i - 1)
           last == before[i - 1]
           dy == path[i][1] - path[i - 1][1]
           dx == path[i][2] - path[i - 1][2]
           diagonal == (dy = 1 \/ dy = -1) /\ (dx = 1 \/ dx = -1)
       IN Append(before, IF diagonal THEN <<last[1], last[2] + 1>>
                                     ELSE <<last[1] + 1, last[2]>>)

\* lines 193-244, with the midline and the K/N dict already computed
FuseResult(midline_analysis, kn) ==
  LET dna_objects == kn.objects_k \o kn.objects_n
  IN IF "midline" \notin DOMAIN midline_analysis
     THEN kn @@ midline_analysis
     ELSE
       LET path == midline_analysis.midline
           n == Len(path)
           indexed == [i \in 1..Len(dna_objects) |->
                         Indexed(dna_objects[i], ArgMin(CdistPoint(dna_objects[i]), path))]
           sorted == SortBy(indexed, "midline_index")
       IN IF ~HasKinetoplast(SelectSeq(sorted, IsK))
          THEN [objects_k |-> SelectSeq(sorted, IsK), objects_n |-> SelectSeq(sorted, IsN)]
               @@ kn @@ midline_analysis
          ELSE
            LET reverse == ShouldReverse(MinK1(sorted, n), MinK2(sorted, n, n))
                oriented == IF reverse THEN Reverse(path) ELSE path
                final == IF reverse
                         THEN [i \in 1..Len(sorted) |->
                                 Indexed(sorted[i], ReversedIndex(n, sorted[i].midline_index))]
                         ELSE sorted
                distance == Distance(oriented, n)
            IN [objects_k |-> SelectSeq(final, IsK),
                objects_n |-> SelectSeq(final, IsN),
                kn_ordered |-> JoinTypes(final),
                midline |-> oriented,
                anterior |-> oriented[1],
                posterior |-> oriented[n],
                distance |-> distance,
                length |-> distance[n]]
               @@ kn @@ midline_analysis

\* a call of cell_morphology_analysis(cell_image)
InitMorph == caller = "morphology" /\ InitSkeleton(MaxMorphPixels)

\* lines 193-244
Fuse ==
  /\ pc = "fuse"
  /\ morphology' = FuseResult(morphology, kn_analysis)
  /\ pc' = "done"
  /\ UNCHANGED <<caller, shape, skeleton0, neighbours, termini, v, pruneVars,
                 pth_skeleton, midline, traced, knVars>>

NextMorph == MidlineStart \/ TraceStep \/ MidlineReturn \/ KnAnalysis \/ Fuse

SpecMorph == InitMorph /\ [][NextMorph]_vars

\* ------------------------------------------------------------ geometry of the claims
Abs(i) == IF i < 0 THEN -i ELSE i
Min2(a, b) == IF a < b THEN a ELSE b

\* two distinct cells that touch, by an edge or a corner
Adjacent(c, d) == c /= d /\ Abs(Yof(c) - Yof(d)) <= 1 /\ Abs(Xof(c) - Xof(d)) <= 1

\* the cells of `among` joined to S through touching cells of `among`
RECURSIVE Grow(_, _)
Grow(S, among) ==
  LET more == S \cup {c \in among : \E d \in S : Adjacent(c, d)}
  IN IF more = S THEN S ELSE Grow(more, among)

Pixels(g) == {c \in DOMAIN g : g[c] = 1}

\* S is a straight line of n touching cells: a row, a column or a diagonal
IsLineOf(S, n) ==
  \E c \in S : \E d \in {<<0, 1>>, <<1, 0>>, <<1, 1>>, <<1, -1>>} :
    /\ \A i \in 0..(n - 1) : Yof(c) + i * d[1] \in 0..(GridH - 1)
                              /\ Xof(c) + i * d[2] \in 0..(GridW - 1)
    /\ S = {Idx(Yof(c) + i * d[1], Xof(c) + i * d[2]) : i \in 0..(n - 1)}

AllWalksDone == pc = "for" /\ t = Len(termini)

\* ------------------------------------------------------------ C5
\* C5: a skeleton that is one straight unbranched line of L pixels with two termini
\* is, after the walks from both termini, cleared entirely when prune_length > L and
\* exactly the original line, with no pixel left tagged 2, when prune_length = 0.
StraightLinePruneLaw ==
  LET line == Pixels(skeleton0)
      L == Cardinality(line)
  IN (AllWalksDone /\ L >= 2 /\ IsLineOf(line, L) /\ Len(termini) = 2)
     => /\ prune_length > L => \A c \in Cells : skeleton[c] = 0
        /\ prune_length = 0 => skeleton = skeleton0

\* a line of 3 pixels has been erased by a prune_length above 3
StraightLineErased ==
  /\ AllWalksDone /\ Len(termini) = 2
  /\ Cardinality(Pixels(skeleton0)) = 3 /\ IsLineOf(Pixels(skeleton0), 3)
  /\ prune_length > 3
  /\ \A c \in Cells : skeleton[c] = 0

\* ------------------------------------------------------------ C9
\* C9: whenever a terminus's walk has finished the grid holds only 0 and 1, and
\* every pixel holding 1 was a skeleton pixel before pruning began; a pixel that a
\* walk cleared is never set back to 1: a later walk tags it only when that walk ends
\* there and clears its tags.
PruneOnlyRemoves ==
  /\ [](pc = "for" => \A c \in Cells : /\ skeleton[c] \in {0, 1}
                                       /\ skeleton[c] = 1 => skeleton0[c] = 1)
  /\ [][\A c \in Cells :
          skeleton[c] = 0 =>
            \/ skeleton'[c] = 0
            \/ skeleton'[c] = 2 /\ v' = 0 /\ length' < prune_length]_vars

\* the second walk starts on a terminus that the first walk cleared with the rest
\* of the skeleton: the pixel is tagged again and the walk ends there
ClearedTerminusTagged ==
  /\ pc = "while" /\ t = 2 /\ length = 0 /\ v = 0
  /\ prune_length > 0
  /\ Cardinality(Pixels(skeleton0)) >= 2
  /\ skeleton[Idx(cy, cx)] = 2
  /\ \A c \in Cells \ {Idx(cy, cx)} : skeleton[c] = 0

\* ------------------------------------------------------------ C8
\* the non-branch pixels joined to the terminus whose walk is running or just ended
SpurOf(term) ==
  Grow({term}, {c \in Cells : skeleton0[c] = 1 /\ neighbours[c] < 3})

BranchesAt(spur) ==
  {q \in Cells : skeleton0[q] = 1 /\ neighbours[q] >= 3 /\ \E p \in spur : Adjacent(p, q)}

\* C8: the walk from a terminus stops on reaching a branch pixel: for a spur of k
\* non-branch pixels that leads into a branch pixel the walk takes k steps, the spur
\* is cleared if and only if k < prune_length and restored to 1 otherwise, and the
\* branch pixel and every pixel beyond keep their value.
SpurPruneLaw ==
  [][LET spur == SpurOf(Idx(termini[t][1], termini[t][2]))
         k == Cardinality(spur)
     IN (pc = "while" /\ pc' = "for" /\ BranchesAt(spur) /= {})
        => /\ length = k
           /\ (k < prune_length) <=> (\A p \in spur : skeleton'[p] = 0)
           /\ (k >= prune_length) => (\A p \in spur : skeleton'[p] = 1)
           /\ \A c \in Cells \ spur : skeleton'[c] = skeleton[c]]_vars

\* ------------------------------------------------------------ C7
TraceOver == pc = "trace" /\ v <= 0

\* the skeleton counts 2 terminus pixels and 0 branch pixels, both termini off the border
SingleLineOffBorder ==
  /\ pc \in {"trace", "error"}
  /\ IsSingleLine(CountTermini(neighbours), CountBranches(neighbours))
  /\ \A c \in Cells : neighbours[c] = 1 => ~OnBorder(c)

\* C7: on a skeleton of exactly 2 terminus pixels and 0 branch pixels, both termini off
\* the image border, the trace loop ends without an error and its path starts at one
\* terminus, ends at the other, repeats no coordinate, steps between touching pixels,
\* is exactly the skeleton component of the termini, and is cleared from the grid.
TraceLaw ==
  SingleLineOffBorder =>
    /\ pc /= "error"
    /\ TraceOver =>
         LET n == Len(midline)
             cellOf(i) == Idx(midline[i][1], midline[i][2])
             inGrid(i) == midline[i][1] \in 0..(GridH - 1) /\ midline[i][2] \in 0..(GridW - 1)
         IN /\ \A i \in 1..n : inGrid(i)
            /\ neighbours[cellOf(1)] = 1 /\ neighbours[cellOf(n)] = 1 /\ cellOf(1) /= cellOf(n)
            /\ \A i, j \in 1..n : i /= j => midline[i] /= midline[j]
            /\ \A i \in 1..(n - 1) : Adjacent(cellOf(i), cellOf(i + 1))
            /\ {cellOf(i) : i \in 1..n} = Grow({cellOf(1)}, Pixels(skeleton0))
            /\ \A i \in 1..n : pth_skeleton[cellOf(i)] = 0

\* ------------------------------------------------------------ C3
Done == pc = "done"

Survivors ==
  {i \in 1..Len(dna_components) :
     /\ dna_components[i].pth_intensity_max = 255
     /\ dna_components[i].area_convex > min_area}

SmallSurvivors == {i \in Survivors : dna_components[i].area_convex < kn_threshold_area}

\* the least m with 2 * m >= n
Ceil2(n) == CHOOSE m \in 0..n : 2 * m >= n /\ 2 * (m - 1) < n

\* C3: count_k + count_n is the number of components that pass the filter; count_k is
\* the number of objects below kn_threshold_area among the ceil(count / 2) smallest
\* survivors (the areas below the threshold are the smallest, so that number is the
\* lesser of ceil(count / 2) and the number of survivors below the threshold); every
\* other survivor is a nucleus; count_kn is "<count_k>K<count_n>N"; the lists have
\* count_k and count_n objects, and nothing at all when no component survives.
KnCountLaw ==
  (Done /\ caller = "kn") =>
    LET n == Cardinality(Survivors)
        kn == kn_analysis
    IN /\ kn.count_k + kn.count_n = n
       /\ kn.count_k = Min2(Ceil2(n), Cardinality(SmallSurvivors))
       /\ kn.count_kn = ToString(kn.count_k) \o "K" \o ToString(kn.count_n) \o "N"
       /\ Len(kn.objects_k) = kn.count_k /\ Len(kn.objects_n) = kn.count_n
       /\ \A i \in 1..Len(kn.objects_k) :
            kn.objects_k[i].type = "k" /\ kn.objects_k[i].area < kn_threshold_area
       /\ \A i \in 1..Len(kn.objects_n) : kn.objects_n[i].type = "n"
       /\ \A i \in 1..Len(kn.objects_k) : \A j \in 1..Len(kn.objects_n) :
            kn.objects_k[i].area <= kn.objects_n[j].area
       /\ n = 0 => kn.count_kn = "0K0N" /\ kn.objects_k = <<>> /\ kn.objects_n = <<>>

\* an object of the smaller half was too large for a kinetoplast, another was not
OversizedSmallRank ==
  /\ Done /\ caller = "kn"
  /\ kn_analysis.count_k >= 1
  /\ kn_analysis.count_k < Ceil2(Cardinality(Survivors))

\* ------------------------------------------------------------ C6
\* C6: a phase mask whose foreground is not the binary convention (0 / 255) yields an
\* input-validation error, never a returned K/N record.
MalformedInputRejected ==
  (Done /\ caller = "kn") =>
    \A i \in 1..Len(dna_components) : dna_components[i].pth_intensity_max \in {0, 255}

\* ------------------------------------------------------------ C4
Returned == Done /\ caller = "morphology"
Keys == DOMAIN morphology
CountKeys == {"termini", "midlines", "branches"}
KnKeys == {"count_kn", "count_k", "count_n", "objects_k", "objects_n"}
PathKeys == {"midline", "midline_pixels"}
OrientedKeys == {"anterior", "posterior", "distance", "length", "kn_ordered"}

Oriented == Returned /\ "anterior" \in Keys
Objects == morphology.objects_k \o morphology.objects_n
PathLen == Len(morphology.midline)
WasReversed == morphology.midline /= traced

\* the position on the traced path of the point nearest to an object
TracedPos(o) == ArgMin(CdistPoint(o), traced)

SetMin(S) == CHOOSE m \in S : \A o \in S : m <= o

\* the least distance, in path positions, of a kinetoplast from the first and from
\* the last point of the traced path
StartGap == SetMin({TracedPos(morphology.objects_k[i]) : i \in 1..Len(morphology.objects_k)})
EndGap ==
  SetMin({PathLen - 1 - TracedPos(morphology.objects_k[i]) :
            i \in 1..Len(morphology.objects_k)})

\* C1: the path is reversed if and only if the kinetoplast closest to the path end is
\* nearer to the last path point than the kinetoplast closest to the path start is to
\* the first; so in the returned record no kinetoplast is nearer to path[last] than
\* the nearest kinetoplast is to path[0].
OrientationLaw ==
  Oriented =>
    /\ WasReversed <=> EndGap < StartGap
    /\ IF WasReversed THEN EndGap <= StartGap ELSE StartGap <= EndGap

\* C2: kn_ordered is the type codes of the DNA objects in ascending order of their
\* final midline_index, whether or not the path was reversed.
KnOrderedAscending ==
  Oriented =>
    \E order \in [1..Len(Objects) -> 1..Len(Objects)] :
      /\ \A i, j \in 1..Len(Objects) : i /= j => order[i] /= order[j]
      /\ \A i, j \in 1..Len(Objects) :
           i < j => Objects[order[i]].midline_index <= Objects[order[j]].midline_index
      /\ morphology.kn_ordered = JoinTypes([i \in 1..Len(Objects) |-> Objects[order[i]]])

\* C10: in a record with a midline path every object's midline_index is a position of
\* the returned path and the path point there is the one nearest to the object's
\* centroid, whether or not the path was reversed.
MidlineIndexValid ==
  (Returned /\ "midline" \in Keys) =>
    \A i \in 1..Len(Objects) :
      LET o == Objects[i]
      IN /\ o.midline_index >= 0 /\ o.midline_index <= PathLen - 1
         /\ \A j \in 1..PathLen :
              SqDist(CdistPoint(o), morphology.midline[o.midline_index + 1])
                <= SqDist(CdistPoint(o), morphology.midline[j])

====
